---------------------------- MODULE Spec2Model ----------------------------
(***************************************************************************)
(* A model of censusalign's reallocation and apportionment engine:         *)
(* Blockify.rollup (blockify.py), Graphify.blockify (graphify.py) and      *)
(* Cultivate.blockify (cultivate.py), with the hamilton_floor helper the   *)
(* three classes share verbatim.                                           *)
(*                                                                         *)
(* A float is a pair <<num, den>>.  den > 0 is the finite value num/den,   *)
(* <<1,0>> is +inf, <<-1,0>> is -inf and <<0,0>> is NaN.  Arithmetic is    *)
(* exact on the finite values; the IEEE-754 rounding of a quotient is not  *)
(* modelled.  An identifier (BLOCK_KEY, GEOID) is the sequence of its      *)
(* characters, each a digit 0..9, so that a slice s[:k] is SubSeq(s,1,k).  *)
(***************************************************************************)
EXTENDS Integers, Sequences, FiniteSets, TLC

VARIABLES
    election_df,    \* self.election_df: SRPREC_KEY -> [dem, rep]
    conversion_df,  \* self.conversion_df: sequence of conversion rows
    call,           \* the last engine call: entry point, level, outcome
    merged,         \* the local `merged` of the last call, after Hamilton rounding
    hvalues,        \* the Series handed to hamilton_floor
    hout,           \* what hamilton_floor did with it
    loaded,         \* the construction of the object: class, year, exception,
                    \* and the vote table as it was read
    history,        \* the calls of a recorded session so far, in order
    shapefile_df,   \* the geometry table merge_population_and_geometry gives:
                    \* the GEOID20 of each shape in order, and the touching pairs
    vote_by_block_df, \* the vote table of a graph build, identifier renamed
    gdf,            \* the geometry table merged with the vote table
    graph,          \* the graph under construction: nodes and edges
    custom_edges,   \* the custom_edges argument of the graph build
    edge_i          \* how many custom edges the build has applied

\* The variables of the engine, of hamilton_floor alone, and of a graph build.
engine_vars == <<election_df, conversion_df, call, merged>>

hamilton_vars == <<hvalues, hout>>

graph_vars ==
    <<shapefile_df, vote_by_block_df, gdf, graph, custom_edges, edge_i>>

vars == <<engine_vars, hamilton_vars, loaded, history, graph_vars>>

(***************************************************************************)
(* Bounds of the model.                                                    *)
(***************************************************************************)
MaxLen == 3
MaxNum == 4
NegNum == 1
MaxDen == 3

(***************************************************************************)
(* Floats.                                                                 *)
(***************************************************************************)
NaN == <<0, 0>>
PosInf == <<1, 0>>
NegInf == <<-1, 0>>

IsNaN(x) == x[2] = 0 /\ x[1] = 0
IsInf(x) == x[2] = 0 /\ x[1] # 0
IsFinite(x) == x[2] > 0

Sign(n) == IF n > 0 THEN 1 ELSE IF n < 0 THEN -1 ELSE 0

FromInt(n) == <<n, 1>>

\* x * y, x / y, x + y and x - y of IEEE-754, exact on finite operands.
FMul(x, y) ==
    IF IsFinite(x) /\ IsFinite(y) THEN <<x[1] * y[1], x[2] * y[2]>>
    ELSE IF IsNaN(x) \/ IsNaN(y) THEN NaN
    ELSE <<Sign(x[1]) * Sign(y[1]), 0>>

FDiv(x, y) ==
    IF IsNaN(x) \/ IsNaN(y) THEN NaN
    ELSE IF IsInf(x) THEN (IF IsInf(y) THEN NaN
                           ELSE <<x[1] * (IF y[1] < 0 THEN -1 ELSE 1), 0>>)
    ELSE IF IsInf(y) THEN <<0, 1>>
    ELSE IF y[1] = 0 THEN <<Sign(x[1]), 0>>
    ELSE <<x[1] * y[2] * Sign(y[1]), x[2] * y[1] * Sign(y[1])>>

FAdd(x, y) ==
    IF IsFinite(x) /\ IsFinite(y) THEN <<x[1] * y[2] + y[1] * x[2], x[2] * y[2]>>
    ELSE IF IsNaN(x) \/ IsNaN(y) THEN NaN
    ELSE IF IsInf(x) /\ IsInf(y) /\ x[1] # y[1] THEN NaN
    ELSE IF IsInf(x) THEN x ELSE y

FNeg(x) == <<-x[1], x[2]>>

FSub(x, y) == FAdd(x, FNeg(y))

\* x > y and x == y as floats compare: every comparison with NaN is false.
FGt(x, y) ==
    IF IsNaN(x) \/ IsNaN(y) THEN FALSE
    ELSE IF IsFinite(x) /\ IsFinite(y) THEN x[1] * y[2] > y[1] * x[2]
    ELSE IF IsInf(x) /\ IsInf(y) THEN x[1] > y[1]
    ELSE IF IsInf(x) THEN x[1] > 0
    ELSE y[1] < 0

FEq(x, y) ==
    IF IsNaN(x) \/ IsNaN(y) THEN FALSE
    ELSE IF IsFinite(x) /\ IsFinite(y) THEN x[1] * y[2] = y[1] * x[2]
    ELSE x = y

\* np.floor of a finite float, as an integer.
Floor(x) == x[1] \div x[2]

\* Python's round(x) of a finite float: to the nearest integer, a tie to the
\* even one.
Round(x) ==
    LET up == (2 * x[1] + x[2]) \div (2 * x[2])
    IN  IF (2 * x[1] + x[2]) % (2 * x[2]) = 0 /\ up % 2 # 0 THEN up - 1 ELSE up

RECURSIVE FSum(_)
FSum(s) == IF s = <<>> THEN <<0, 1>> ELSE FAdd(FSum(Tail(s)), Head(s))

RECURSIVE ISum(_)
ISum(s) == IF s = <<>> THEN 0 ELSE Head(s) + ISum(Tail(s))

(***************************************************************************)
(* hamilton_floor                                                          *)
(***************************************************************************)

nlargest_keep_last(s, n) ==
    {i \in DOMAIN s :
        Cardinality({j \in DOMAIN s :
            FGt(s[j], s[i]) \/ (FEq(s[j], s[i]) /\ j > i)}) < n}

\* Series.nlargest(n), keep='first': the positions of the n largest values,
\* the earlier position first among equal values.
nlargest(s, n) ==
    {i \in DOMAIN s :
        Cardinality({j \in DOMAIN s :
            FGt(s[j], s[i]) \/ (FEq(s[j], s[i]) /\ j < i)}) < n}

\* No call of an entry point yet, and no call of hamilton_floor yet.
NoCall == [entry |-> "", level |-> "", raised |-> "", ret |-> <<>>]

NotCalled == [raised |-> "not called", ret |-> <<>>]

\* The outcome of a call: a returned value or a raised exception.
Return(v) == [raised |-> "", ret |-> v]
Raise(e) == [raised |-> e, ret |-> <<>>]

hamilton_floor_skip_last(values) ==
    IF \A i \in DOMAIN values : IsNaN(values[i])
    THEN Return([i \in DOMAIN values |-> 0])
    ELSE IF \E i \in DOMAIN values : ~IsFinite(values[i])
    THEN Raise("IntCastingNaNError")
    ELSE LET floored == [i \in DOMAIN values |-> Floor(values[i])]
             remainder == [i \in DOMAIN values |->
                              FSub(values[i], FromInt(floored[i]))]
             n_remaining == Round(FSum(remainder)) - 1
         IN  IF n_remaining > 0
             THEN LET top_indices == nlargest(remainder, n_remaining)
                  IN  Return([i \in DOMAIN values |->
                          IF i \in top_indices THEN floored[i] + 1
                                               ELSE floored[i]])
             ELSE Return(floored)

hamilton_floor_all_to_top(values) ==
    IF \A i \in DOMAIN values : IsNaN(values[i])
    THEN Return([i \in DOMAIN values |-> 0])
    ELSE IF \E i \in DOMAIN values : ~IsFinite(values[i])
    THEN Raise("IntCastingNaNError")
    ELSE LET floored == [i \in DOMAIN values |-> Floor(values[i])]
             remainder == [i \in DOMAIN values |->
                              FSub(values[i], FromInt(floored[i]))]
             n_remaining == Round(FSum(remainder))
         IN  IF n_remaining > 0
             THEN LET top_indices == nlargest(remainder, 1)
                  IN  Return([i \in DOMAIN values |->
                          IF i \in top_indices THEN floored[i] + n_remaining
                                               ELSE floored[i]])
             ELSE Return(floored)

\* hamilton_floor with the sign of the correction reversed.
hamilton_floor_decrements(values) ==
    IF \A i \in DOMAIN values : IsNaN(values[i])
    THEN Return([i \in DOMAIN values |-> 0])
    ELSE IF \E i \in DOMAIN values : ~IsFinite(values[i])
    THEN Raise("IntCastingNaNError")
    ELSE LET floored == [i \in DOMAIN values |-> Floor(values[i])]
             remainder == [i \in DOMAIN values |->
                              FSub(values[i], FromInt(floored[i]))]
             n_remaining == Round(FSum(remainder))
         IN  IF n_remaining > 0
             THEN LET top_indices == nlargest(remainder, n_remaining)
                  IN  Return([i \in DOMAIN values |->
                          IF i \in top_indices THEN floored[i] - 1
                                               ELSE floored[i]])
             ELSE Return(floored)

\* hamilton_floor without the test for a group of missing values.
hamilton_floor_without_isna(values) ==
    IF \E i \in DOMAIN values : ~IsFinite(values[i])
    THEN Raise("IntCastingNaNError")
    ELSE LET floored == [i \in DOMAIN values |-> Floor(values[i])]
             remainder == [i \in DOMAIN values |->
                              FSub(values[i], FromInt(floored[i]))]
             n_remaining == Round(FSum(remainder))
         IN  IF n_remaining > 0
             THEN LET top_indices == nlargest(remainder, n_remaining)
                  IN  Return([i \in DOMAIN values |->
                          IF i \in top_indices THEN floored[i] + 1
                                               ELSE floored[i]])
             ELSE Return(floored)

hamilton_floor(values) ==
    IF \A i \in DOMAIN values : IsNaN(values[i])
    THEN Return([i \in DOMAIN values |-> 0])
    ELSE IF \E i \in DOMAIN values : ~IsFinite(values[i])
    THEN Raise("IntCastingNaNError")
    ELSE LET floored == [i \in DOMAIN values |-> Floor(values[i])]
             remainder == [i \in DOMAIN values |->
                              FSub(values[i], FromInt(floored[i]))]
             n_remaining == Round(FSum(remainder))
         IN  IF n_remaining > 0
             THEN LET top_indices == nlargest(remainder, n_remaining)
                  IN  Return([i \in DOMAIN values |->
                          IF i \in top_indices THEN floored[i] + 1
                                               ELSE floored[i]])
             ELSE Return(floored)

(***************************************************************************)
(* Identifiers and tables.                                                 *)
(***************************************************************************)
Min(a, b) == IF a < b THEN a ELSE b

\* s[:n] of a Python string.
Prefix(s, n) == SubSeq(s, 1, Min(n, Len(s)))

\* s[-1] == "0" of a Python string (false of the empty string).
EndsInZero(s) == Len(s) > 0 /\ s[Len(s)] = 0

\* a < b as Python compares strings: by the first differing character, a
\* proper prefix first.
RECURSIVE StrLess(_, _)
StrLess(a, b) ==
    IF b = <<>> THEN FALSE
    ELSE IF a = <<>> THEN TRUE
    ELSE IF Head(a) # Head(b) THEN Head(a) < Head(b)
    ELSE StrLess(Tail(a), Tail(b))

\* The strings of a set in ascending order.
RECURSIVE SortedStrs(_)
SortedStrs(S) ==
    IF S = {} THEN <<>>
    ELSE LET m == CHOOSE k \in S : \A o \in S \ {k} : StrLess(k, o)
         IN  <<m>> \o SortedStrs(S \ {m})

\* [f(s[1]), ..., f(s[n])]
Map(s, f(_)) == [i \in DOMAIN s |-> f(s[i])]

\* A returned DataFrame: its column names in order, and its rows.
Table(cols, rows) == [cols |-> cols, rows |-> rows]

(***************************************************************************)
(* The engine: the body shared by Blockify.rollup, Graphify.blockify and   *)
(* Cultivate.blockify, up to the block-level table.                        *)
(***************************************************************************)

\* conversion_df.merge(election_df, on="SRPREC_KEY", how="left"): every
\* conversion row, in order, with the precinct's counts or NaN.
MergeLeft(c, e) ==
    [i \in DOMAIN c |->
        [index |-> i,
         SRPREC_KEY |-> c[i].SRPREC_KEY,
         BLOCK_KEY |-> c[i].BLOCK_KEY,
         BLKREG |-> c[i].BLKREG,
         SRTOTREG |-> c[i].SRTOTREG,
         dem |-> IF c[i].SRPREC_KEY \in DOMAIN e
                 THEN FromInt(e[c[i].SRPREC_KEY].dem) ELSE NaN,
         rep |-> IF c[i].SRPREC_KEY \in DOMAIN e
                 THEN FromInt(e[c[i].SRPREC_KEY].rep) ELSE NaN]]

HasRegistration_dropna_only(r) ==
    ~IsNaN(r.BLKREG) /\ ~IsNaN(r.SRTOTREG) /\ ~IsNaN(r.dem) /\ ~IsNaN(r.rep)

\* dropna(subset=["BLKREG", "SRTOTREG", "dem", "rep"]), then SRTOTREG > 0.
HasRegistration(r) ==
    /\ ~IsNaN(r.BLKREG) /\ ~IsNaN(r.SRTOTREG) /\ ~IsNaN(r.dem) /\ ~IsNaN(r.rep)
    /\ FGt(r.SRTOTREG, FromInt(0))

WithRaw_rep_from_dem(r) ==
    r @@ [dem_raw |-> FDiv(FMul(r.dem, r.BLKREG), r.SRTOTREG),
          rep_raw |-> FDiv(FMul(r.dem, r.BLKREG), r.SRTOTREG)]

\* dem * BLKREG / SRTOTREG and rep * BLKREG / SRTOTREG.
WithRaw(r) ==
    r @@ [dem_raw |-> FDiv(FMul(r.dem, r.BLKREG), r.SRTOTREG),
          rep_raw |-> FDiv(FMul(r.rep, r.BLKREG), r.SRTOTREG)]

\* replace([inf, -inf], nan), then dropna(subset=["dem_raw", "rep_raw"]).
HasFiniteRaw(r) == IsFinite(r.dem_raw) /\ IsFinite(r.rep_raw)

\* The rows that reach the Hamilton step, with their raw allocations.
Allocated(c, e) ==
    SelectSeq(Map(SelectSeq(MergeLeft(c, e), HasRegistration), WithRaw),
              HasFiniteRaw)

\* One group holding every row, whatever its precinct.
GroupOfAll(rows, i) == [j \in DOMAIN rows |-> j]

\* The positions of the rows of row i's group, in row order.
GroupOf(rows, i) ==
    SelectSeq([j \in DOMAIN rows |-> j],
              LAMBDA j : rows[j].SRPREC_KEY = rows[i].SRPREC_KEY)

\* groupby("SRPREC_KEY")[col].transform(hamilton_floor): the outcome of
\* hamilton_floor on the column's values of row i's group.
GroupOutcome(rows, col, i) ==
    hamilton_floor(Map(GroupOf(rows, i), LAMBDA j : rows[j][col]))

\* Row i's place within its group.
PlaceInGroup(rows, i) ==
    Cardinality({j \in 1..i : rows[j].SRPREC_KEY = rows[i].SRPREC_KEY})

Transform(rows, col) ==
    [i \in DOMAIN rows |-> GroupOutcome(rows, col, i).ret[PlaceInGroup(rows, i)]]

\* The exception the Hamilton step raises, "" when it raises none.
TransformRaises(rows) ==
    IF \E i \in DOMAIN rows : \E col \in {"dem_raw", "rep_raw"} :
           GroupOutcome(rows, col, i).raised # ""
    THEN "IntCastingNaNError" ELSE ""

\* `merged` after the Hamilton step: dem and rep hold the apportioned counts.
Apportioned(rows) ==
    LET dem == Transform(rows, "dem_raw")
        rep == Transform(rows, "rep_raw")
    IN  [i \in DOMAIN rows |->
            [rows[i] EXCEPT !.dem = dem[i], !.rep = rep[i]]]

Merged(c, e) == Apportioned(Allocated(c, e))

\* The value of column col in the last of the rows whose column key is k.
SumWhere_last(rows, key, k, col) ==
    LET sel == SelectSeq(rows, LAMBDA r : r[key] = k)
    IN  IF sel = <<>> THEN 0 ELSE sel[Len(sel)][col]

\* The sum of column col over the rows whose column key is k.
SumWhere(rows, key, k, col) ==
    ISum(Map(SelectSeq(rows, LAMBDA r : r[key] = k), LAMBDA r : r[col]))

\* The keys of rows in the order of their first appearance.
RECURSIVE FirstKeys(_, _)
FirstKeys(rows, key) ==
    IF rows = <<>> THEN <<>>
    ELSE LET init == FirstKeys(SubSeq(rows, 1, Len(rows) - 1), key)
             k == rows[Len(rows)][key]
         IN  IF \E i \in DOMAIN init : init[i] = k THEN init
             ELSE Append(init, k)

\* groupby(key, sort=False): one row per key, in order of first appearance.
GroupSum_in_row_order(rows, key) ==
    Map(FirstKeys(rows, key),
        LAMBDA k : (key :> k) @@
                   [dem |-> SumWhere(rows, key, k, "dem"),
                    rep |-> SumWhere(rows, key, k, "rep"),
                    tot |-> SumWhere(rows, key, k, "dem")
                            + SumWhere(rows, key, k, "rep")])

\* rows.groupby(key)[["dem", "rep"]].sum().reset_index(), tot = dem + rep:
\* one row per key, in ascending order of the key.
GroupSum(rows, key) ==
    Map(SortedStrs({rows[i][key] : i \in DOMAIN rows}),
        LAMBDA k : (key :> k) @@
                   [dem |-> SumWhere(rows, key, k, "dem"),
                    rep |-> SumWhere(rows, key, k, "rep"),
                    tot |-> SumWhere(rows, key, k, "dem")
                            + SumWhere(rows, key, k, "rep")])

\* The block-level table without the water-only blocks: those whose first
\* n characters end in "0".
BlockDf(m, n) ==
    SelectSeq(GroupSum(m, "BLOCK_KEY"),
              LAMBDA r : ~EndsInZero(Prefix(r.BLOCK_KEY, n)))

\* block_df[geoid_col] = block_df["BLOCK_KEY"].str[:n]
WithGeoid(block_df, geoid_col, n) ==
    Map(block_df, LAMBDA r : (geoid_col :> Prefix(r.BLOCK_KEY, n)) @@ r)

\* Columns renamed to total_vote, dem_vote, rep_vote.
Renamed(rows, geoid_col) ==
    Map(rows, LAMBDA r : (geoid_col :> r[geoid_col]) @@
                         [total_vote |-> r.tot, dem_vote |-> r.dem,
                          rep_vote |-> r.rep])

(***************************************************************************)
(* The three entry points, each the outcome of a call with a level.        *)
(***************************************************************************)
BlockgroupLen == 12
TractLen == 11
CountyLen == 5
CultivateBlockgroupLen == 11

Blockify_rollup_default_blockgroup(m, level) ==
    LET block_df == BlockDf(m, BlockgroupLen)
        agg(geoid_col, n) ==
            Return(Table(<<geoid_col, "tot", "dem", "rep">>,
                         GroupSum(WithGeoid(block_df, geoid_col, n), geoid_col)))
    IN  IF level = "block"
        THEN Return(Table(<<"BLOCK_KEY", "tot", "dem", "rep">>, block_df))
        ELSE IF level = "tract" THEN agg("GEOID_TRACT", TractLen)
        ELSE IF level = "county" THEN agg("GEOID_COUNTY", CountyLen)
        ELSE agg("GEOID_BLOCKGROUP", BlockgroupLen)

\* Blockify.rollup aggregating the block sums before the water-only blocks
\* are removed.
Blockify_rollup_aggregates_unfiltered(m, level) ==
    LET block_df == BlockDf(m, BlockgroupLen)
        block_votes == GroupSum(m, "BLOCK_KEY")
        agg(geoid_col, n) ==
            Return(Table(<<geoid_col, "tot", "dem", "rep">>,
                         GroupSum(WithGeoid(block_votes, geoid_col, n), geoid_col)))
    IN  IF level = "block"
        THEN Return(Table(<<"BLOCK_KEY", "tot", "dem", "rep">>, block_df))
        ELSE IF level = "blockgroup" THEN agg("GEOID_BLOCKGROUP", BlockgroupLen)
        ELSE IF level = "tract" THEN agg("GEOID_TRACT", TractLen)
        ELSE IF level = "county" THEN agg("GEOID_COUNTY", CountyLen)
        ELSE Raise("ValueError")

Blockify_rollup(m, level) ==
    LET block_df == BlockDf(m, BlockgroupLen)
        agg(geoid_col, n) ==
            Return(Table(<<geoid_col, "tot", "dem", "rep">>,
                         GroupSum(WithGeoid(block_df, geoid_col, n), geoid_col)))
    IN  IF level = "block"
        THEN Return(Table(<<"BLOCK_KEY", "tot", "dem", "rep">>, block_df))
        ELSE IF level = "blockgroup" THEN agg("GEOID_BLOCKGROUP", BlockgroupLen)
        ELSE IF level = "tract" THEN agg("GEOID_TRACT", TractLen)
        ELSE IF level = "county" THEN agg("GEOID_COUNTY", CountyLen)
        ELSE Raise("ValueError")

Graphify_blockify(m, level) ==
    LET block_df == BlockDf(m, BlockgroupLen)
        agg(geoid_col, n) ==
            Return(Table(<<geoid_col, "total_vote", "dem_vote", "rep_vote">>,
                Renamed(GroupSum(WithGeoid(block_df, geoid_col, n), geoid_col),
                        geoid_col)))
    IN  IF level = "block"
        THEN Return(Table(<<"BLOCK_KEY", "tot", "dem", "rep", "GEOID_" \o level>>,
                Map(block_df, LAMBDA r : ("GEOID_" \o level :> r.BLOCK_KEY) @@ r)))
        ELSE IF level = "blockgroup" THEN agg("GEOID_" \o level, BlockgroupLen)
        ELSE IF level = "tract" THEN agg("GEOID_TRACT", TractLen)
        ELSE IF level = "county" THEN agg("GEOID_COUNTY", CountyLen)
        ELSE Raise("ValueError")

Cultivate_blockify(m, level) ==
    LET block_df == BlockDf(m, CultivateBlockgroupLen)
        geoid_col == "GEOID_" \o level
    IN  IF level = "blockgroup"
        THEN Return(Table(<<geoid_col, "total_vote", "dem_vote", "rep_vote">>,
                Renamed(GroupSum(WithGeoid(block_df, geoid_col,
                                           CultivateBlockgroupLen), geoid_col),
                        geoid_col)))
        ELSE Raise("ValueError")

(***************************************************************************)
(* The loaded tables.                                                      *)
(***************************************************************************)
MaxVotes == 1
MaxRows == 2

PrecinctKeys == {"P1", "P2"}

\* Block identifiers: county (5), tract (11), block group (12), block (15).
K1 == <<0,6,0,0,1, 0,0,0,1,0,1, 1, 0,0,1>>
K2 == <<0,6,0,0,1, 0,0,0,1,0,1, 1, 0,0,2>>  \* the block group of K1
K3 == <<0,6,0,0,1, 0,0,0,1,0,1, 0, 0,0,1>>  \* the tract of K1, block group 0
K4 == <<0,6,0,0,3, 0,0,0,1,1,0, 2, 0,0,1>>  \* another county, tract ending in 0
K5 == <<0,6,0,0,1, 0,0,0,1,0,1, 2, 0,0,1>>  \* the tract of K1, block group 2
BlockKeys == <<K1, K2, K3, K4, K5>>

Levels == {"block", "blockgroup", "tract", "county", "state"}

Counts == [dem : 0..MaxVotes, rep : 0..MaxVotes]

\* The vote table: P1 has a record, P2 has one or none.
VoteTables == UNION {[S -> Counts] : S \in {{"P1"}, PrecinctKeys}}

\* <<BLKREG, SRTOTREG>> of a conversion row: half or all of a precinct total
\* of two, the rows the engine drops (a missing weight, a missing, zero or
\* negative total, an infinite weight), and a negative weight, which it keeps.
Weights ==
    {<<FromInt(1), FromInt(2)>>, <<FromInt(2), FromInt(2)>>,
     <<NaN, FromInt(2)>>, <<FromInt(1), NaN>>, <<FromInt(1), FromInt(0)>>,
     <<FromInt(1), FromInt(-1)>>, <<PosInf, FromInt(2)>>,
     <<FromInt(-1), FromInt(2)>>}

ConvRow(p, k, b, t) ==
    [SRPREC_KEY |-> p, BLOCK_KEY |-> k, BLKREG |-> b, SRTOTREG |-> t]

\* Conversion tables that vary the registration weights: the i-th row maps to
\* the i-th block.
WeightTables ==
    UNION {{[i \in 1..n |->
                ConvRow(p[i], BlockKeys[((i - 1) % Len(BlockKeys)) + 1],
                        w[i][1], w[i][2])] :
            p \in [1..n -> PrecinctKeys], w \in [1..n -> Weights]} :
           n \in 0..MaxRows}

\* Conversion tables that vary the blocks: every row carries the whole
\* registration of its precinct.
GeoTables ==
    UNION {{[i \in 1..n |->
                ConvRow(p[i], BlockKeys[k[i]], FromInt(1), FromInt(1))] :
            p \in [1..n -> PrecinctKeys], k \in [1..n -> DOMAIN BlockKeys]} :
           n \in 0..MaxRows}

\* A Python value passed as `year`: its type and its text as an f-string
\* formats it.
PyStr(text) == [type |-> "str", text |-> text]

PyInt(text) == [type |-> "int", text |-> text]

NoYear == [type |-> "", text |-> ""]

\* The object is constructed, of a class that is not tracked; and the
\* constructor has not run yet.
Constructed == [cls |-> "", year |-> NoYear, raised |-> "", read |-> <<>>]

NotConstructed ==
    [cls |-> "", year |-> NoYear, raised |-> "not constructed", read |-> <<>>]

\* An object of class cls exists.
IsConstructed(cls) == loaded.raised = "" /\ loaded.cls \in {"", cls}

\* No call of hamilton_floor alone, and no graph build.
NoHamilton == hvalues = <<>> /\ hout = NotCalled

NoShapes == [ids |-> <<>>, touching |-> {}]

NoGraph == [nodes |-> {}, edges |-> {}]

NoGraphBuild ==
    /\ shapefile_df = NoShapes
    /\ vote_by_block_df = Table(<<>>, <<>>)
    /\ gdf = <<>>
    /\ graph = NoGraph
    /\ custom_edges = <<>>
    /\ edge_i = 0

Init ==
    /\ election_df \in VoteTables
    /\ conversion_df \in WeightTables \cup GeoTables
    /\ call = NoCall
    /\ merged = <<>>
    /\ loaded = Constructed
    /\ history = <<>>
    /\ NoHamilton
    /\ NoGraphBuild

\* The body the entry points share, lines 66-86: the exception it raises
\* ("" for none) and `merged` as it leaves the Hamilton step.
SharedBody(c, e) ==
    [raised |-> TransformRaises(Allocated(c, e)), merged |-> Merged(c, e)]

\* A call that keeps its filtered rows as the object's conversion table.
Called_filters_conversion_df(entry, level, body, outcome) ==
    /\ merged' = body.merged
    /\ call' = [entry |-> entry, level |-> level,
                raised |-> IF body.raised # "" THEN body.raised ELSE outcome.raised,
                ret |-> IF body.raised # "" THEN <<>> ELSE outcome.ret]
    /\ conversion_df' = [i \in DOMAIN body.merged |->
                            conversion_df[body.merged[i].index]]
    /\ UNCHANGED <<election_df, hamilton_vars, loaded, graph_vars>>

\* A call of an entry point: the shared body runs, then the entry point's own.
Called(entry, level, body, outcome) ==
    /\ merged' = body.merged
    /\ call' = [entry |-> entry, level |-> level,
                raised |-> IF body.raised # "" THEN body.raised ELSE outcome.raised,
                ret |-> IF body.raised # "" THEN <<>> ELSE outcome.ret]
    /\ UNCHANGED <<election_df, conversion_df, hamilton_vars, loaded, graph_vars>>

\* The three entry points, called on a constructed object with any level.
BlockifyRollup ==
    /\ IsConstructed("Blockify")
    /\ \E body \in {SharedBody(conversion_df, election_df)} :
          \E level \in Levels :
              Called("Blockify.rollup", level, body,
                     Blockify_rollup(body.merged, level))

GraphifyBlockify ==
    /\ IsConstructed("Graphify")
    /\ \E body \in {SharedBody(conversion_df, election_df)} :
          \E level \in Levels :
              Called("Graphify.blockify", level, body,
                     Graphify_blockify(body.merged, level))

CultivateBlockify ==
    /\ IsConstructed("Cultivate")
    /\ \E body \in {SharedBody(conversion_df, election_df)} :
          \E level \in Levels :
              Called("Cultivate.blockify", level, body,
                     Cultivate_blockify(body.merged, level))

\* A call on the loaded tables, the session not being recorded.
CallBlockifyRollup == BlockifyRollup /\ UNCHANGED history

CallGraphifyBlockify == GraphifyBlockify /\ UNCHANGED history

CallCultivateBlockify == CultivateBlockify /\ UNCHANGED history

Next == CallBlockifyRollup \/ CallGraphifyBlockify \/ CallCultivateBlockify

Spec == Init /\ [][Next]_vars

(***************************************************************************)
(* A recorded session: up to MaxCalls calls on one object, each appended   *)
(* to `history` with its outcome.                                          *)
(***************************************************************************)
MaxCalls == 2

\* The tables of a session: one precinct's votes, one conversion row.
SessionVotes == [{"P1"} -> Counts]

SessionTables == {c \in GeoTables : Len(c) = 1}

SessionInit ==
    /\ election_df \in SessionVotes
    /\ conversion_df \in SessionTables
    /\ call = NoCall
    /\ merged = <<>>
    /\ loaded = Constructed
    /\ history = <<>>
    /\ NoHamilton
    /\ NoGraphBuild

SessionBlockifyRollup ==
    /\ Len(history) < MaxCalls
    /\ BlockifyRollup
    /\ history' = Append(history, call')

SessionGraphifyBlockify ==
    /\ Len(history) < MaxCalls
    /\ GraphifyBlockify
    /\ history' = Append(history, call')

SessionCultivateBlockify ==
    /\ Len(history) < MaxCalls
    /\ CultivateBlockify
    /\ history' = Append(history, call')

SessionNext ==
    SessionBlockifyRollup \/ SessionGraphifyBlockify \/ SessionCultivateBlockify

SpecSession == SessionInit /\ [][SessionNext]_vars

(***************************************************************************)
(* Construction: election_df starts as the vote table as it is read        *)
(* (read_csv, Harvest.load_vote), its counts floats or missing, and a      *)
(* constructor converts it or raises.                                      *)
(***************************************************************************)
\* astype(int) of a finite float: truncation toward zero.
AsInt(x) == IF x[1] >= 0 THEN x[1] \div x[2] ELSE 0 - ((0 - x[1]) \div x[2])

\* election_df[["dem", "rep"]].astype(int): pandas refuses to cast a missing
\* or infinite value.
AsTypeInt(e) ==
    IF \E p \in DOMAIN e : ~IsFinite(e[p].dem) \/ ~IsFinite(e[p].rep)
    THEN Raise("IntCastingNaNError")
    ELSE Return([p \in DOMAIN e |->
                    [dem |-> AsInt(e[p].dem), rep |-> AsInt(e[p].rep)]])

\* Blockify.__init__ and Graphify.__init__, the same lines: both files must
\* exist, then the counts are cast.
Blockify_init(read, election_exists, conversion_exists) ==
    IF ~election_exists \/ ~conversion_exists THEN Raise("FileNotFoundError")
    ELSE AsTypeInt(read)

\* a != b of Python on str and int values: values of different types differ.
PyNe(a, b) == a.type # b.type \/ a.text # b.text

\* The year Harvest supports, and the default years of the constructors.
SupportedYear == PyInt("2022")

CultivateDefaultYear == PyStr("2022")

\* Harvest.__init__: the year check, then the configuration ca_{year}.yaml.
Harvest_init(year, config_exists) ==
    IF PyNe(year, SupportedYear) THEN Raise("ValueError")
    ELSE IF ~config_exists THEN Raise("FileNotFoundError")
    ELSE Return(year)

\* Cultivate.__init__: the configuration, the Harvest, the four downloads,
\* then the cast of the counts.
Cultivate_init(year, read, config_exists, fetched) ==
    IF ~config_exists THEN Raise("FileNotFoundError")
    ELSE IF Harvest_init(year, config_exists).raised # ""
    THEN Raise(Harvest_init(year, config_exists).raised)
    ELSE IF ~fetched THEN Raise("HTTPError")
    ELSE AsTypeInt(read)

\* The counts of a vote table as it is read: missing, whole, or fractional.
RawCounts == {NaN, FromInt(0), FromInt(1), <<3, 2>>}

RawVoteTables == [{"P1"} -> [dem : RawCounts, rep : RawCounts]]

Years == {PyStr("2022"), PyInt("2022"), PyInt("2021")}

LoadInit ==
    /\ election_df \in RawVoteTables
    /\ conversion_df \in SessionTables
    /\ call = NoCall
    /\ merged = <<>>
    /\ loaded = NotConstructed
    /\ history = <<>>
    /\ NoHamilton
    /\ NoGraphBuild

\* A constructor ran: the object exists with the cast table, or it raised.
ConstructedAs(cls, year, outcome) ==
    /\ loaded = NotConstructed
    /\ loaded' = [cls |-> cls, year |-> year, raised |-> outcome.raised,
                  read |-> election_df]
    /\ election_df' = IF outcome.raised = "" THEN outcome.ret ELSE election_df
    /\ UNCHANGED <<conversion_df, call, merged, hamilton_vars, history, graph_vars>>

ConstructBlockify ==
    \E election_exists, conversion_exists \in BOOLEAN :
        ConstructedAs("Blockify", NoYear,
            Blockify_init(election_df, election_exists, conversion_exists))

ConstructGraphify ==
    \E election_exists, conversion_exists \in BOOLEAN :
        ConstructedAs("Graphify", NoYear,
            Blockify_init(election_df, election_exists, conversion_exists))

ConstructCultivate ==
    \E year \in Years : \E config_exists, fetched \in BOOLEAN :
        ConstructedAs("Cultivate", year,
            Cultivate_init(year, election_df, config_exists, fetched))

ConstructHarvest ==
    \E year \in Years : \E config_exists \in BOOLEAN :
        /\ loaded = NotConstructed
        /\ loaded' = [cls |-> "Harvest", year |-> year,
                      raised |-> Harvest_init(year, config_exists).raised,
                      read |-> <<>>]
        /\ UNCHANGED <<engine_vars, hamilton_vars, history, graph_vars>>

LoadNext ==
    \/ ConstructBlockify \/ ConstructGraphify
    \/ ConstructCultivate \/ ConstructHarvest
    \/ CallBlockifyRollup \/ CallGraphifyBlockify \/ CallCultivateBlockify

SpecLoad == LoadInit /\ [][LoadNext]_vars

(***************************************************************************)
(* Graph builds: Graphify.create and Cultivate.graphify up to the graph of *)
(* the merged table, then one _add_edge_by_geoid per custom edge.          *)
(***************************************************************************)
\* The table has a column of that name.
HasCol(t, col) == \E i \in DOMAIN t.cols : t.cols[i] = col

\* t.rename(columns={from: to}): pandas ignores a name the table lacks.
RenameCol(t, from, to) ==
    IF ~HasCol(t, from) THEN t
    ELSE Table([i \in DOMAIN t.cols |-> IF t.cols[i] = from THEN to ELSE t.cols[i]],
               Map(t.rows, LAMBDA r :
                   [c \in (DOMAIN r \ {from}) \cup {to} |->
                       IF c = to THEN r[from] ELSE r[c]]))

\* vote_by_block_df["GEOID20"] = "0" + vote_by_block_df["GEOID20"]
ZeroPrefixed(t) ==
    IF ~HasCol(t, "GEOID20") THEN Raise("KeyError")
    ELSE Return(Table(t.cols,
             Map(t.rows, LAMBDA r : [r EXCEPT !.GEOID20 = <<0>> \o r.GEOID20])))

\* The rows of pd.merge(gdf, t, on="GEOID20", how="inner"): for each shape in
\* order, its rows of t.
RECURSIVE MergeRows(_, _)
MergeRows(ids, rows) ==
    IF ids = <<>> THEN <<>>
    ELSE SelectSeq(rows, LAMBDA r : r.GEOID20 = Head(ids))
            \o MergeRows(Tail(ids), rows)

\* pd.merge(gdf, t, on="GEOID20", how="inner"): KeyError when t has no
\* GEOID20 column.
MergeInner(shapes, t) ==
    IF ~HasCol(t, "GEOID20") THEN Raise("KeyError")
    ELSE Return(MergeRows(shapes.ids, t.rows))

\* Graph.from_geodataframe(gdf): a node per row, named by the row's index
\* (from 0), and an edge per pair of rows whose shapes touch.
FromGeodataframe(df, touching) ==
    [nodes |-> {i - 1 : i \in DOMAIN df},
     edges |-> {{p[1] - 1, p[2] - 1} :
                   p \in {q \in (DOMAIN df) \X (DOMAIN df) :
                             /\ q[1] # q[2]
                             /\ {df[q[1]].GEOID20, df[q[2]].GEOID20} \in touching}}]

\* What a build leaves before its loop over custom_edges.
Built(raised, votes, df, g) ==
    [raised |-> raised, votes |-> votes, gdf |-> df, graph |-> g]

\* Graphify.create, lines 219-232.
Graphify_create(body, level, shapes) ==
    LET blockified == IF body.raised # "" THEN Raise(body.raised)
                      ELSE Graphify_blockify(body.merged, level)
    IN  IF blockified.raised # ""
        THEN Built(blockified.raised, Table(<<>>, <<>>), <<>>, NoGraph)
        ELSE LET votes == RenameCol(blockified.ret, "GEOID_" \o level, "GEOID20")
                 joined == MergeInner(shapes, votes)
             IN  IF joined.raised # ""
                 THEN Built(joined.raised, votes, <<>>, NoGraph)
                 ELSE Built("", votes, joined.ret,
                            FromGeodataframe(joined.ret, shapes.touching))

\* Cultivate.graphify, lines 255-271.
Cultivate_graphify(body, level, shapes) ==
    LET blockified == IF body.raised # "" THEN Raise(body.raised)
                      ELSE Cultivate_blockify(body.merged, "blockgroup")
    IN  IF blockified.raised # ""
        THEN Built(blockified.raised, Table(<<>>, <<>>), <<>>, NoGraph)
        ELSE LET renamed == RenameCol(blockified.ret, "GEOID_" \o level, "GEOID20")
                 votes == ZeroPrefixed(renamed)
             IN  IF votes.raised # ""
                 THEN Built(votes.raised, renamed, <<>>, NoGraph)
                 ELSE Built("", votes.ret, MergeRows(shapes.ids, votes.ret.rows),
                            FromGeodataframe(MergeRows(shapes.ids, votes.ret.rows),
                                             shapes.touching))

\* gdf.index[gdf["GEOID20"] == geoid].tolist(): the indexes of the rows with
\* that identifier, in order.
IndexesOf(df, geoid) ==
    Map(SelectSeq([i \in DOMAIN df |-> i], LAMBDA i : df[i].GEOID20 = geoid),
        LAMBDA i : i - 1)

\* _add_edge_by_geoid without its try/except.
_add_edge_by_geoid_unguarded(g, df, geoid1, geoid2) ==
    IF IndexesOf(df, geoid1) = <<>> \/ IndexesOf(df, geoid2) = <<>>
    THEN Raise("IndexError")
    ELSE Return([nodes |-> g.nodes \cup {IndexesOf(df, geoid1)[1],
                                         IndexesOf(df, geoid2)[1]},
                 edges |-> g.edges \cup {{IndexesOf(df, geoid1)[1],
                                          IndexesOf(df, geoid2)[1]}}])

\* _add_edge_by_geoid of both classes: the IndexError of an identifier that
\* is not in gdf is caught, and the graph is as it was.
_add_edge_by_geoid(g, df, geoid1, geoid2) ==
    IF IndexesOf(df, geoid1) = <<>> \/ IndexesOf(df, geoid2) = <<>>
    THEN Return(g)
    ELSE Return([nodes |-> g.nodes \cup {IndexesOf(df, geoid1)[1],
                                         IndexesOf(df, geoid2)[1]},
                 edges |-> g.edges \cup {{IndexesOf(df, geoid1)[1],
                                          IndexesOf(df, geoid2)[1]}}])

MaxEdges == 2

\* Block group identifiers: those of K1 and K5, and one no table holds.
G1 == Prefix(K1, BlockgroupLen)
G5 == Prefix(K5, BlockgroupLen)
G9 == <<0,6,0,0,9, 0,0,0,1,0,1, 1>>

\* The identifiers Cultivate.graphify makes of K1 and K4: "0" and the block
\* group of Cultivate.blockify. No table of Cultivate.blockify holds H4, as
\* the eleventh character of K4 is "0".
H1 == <<0>> \o Prefix(K1, CultivateBlockgroupLen)
H4 == <<0>> \o Prefix(K4, CultivateBlockgroupLen)

\* The geometry tables: one or two shapes, touching or not.
Shapes ==
    {[ids |-> ids, touching |-> t] :
        ids \in {<<G1>>, <<G1, G5>>, <<H1, H4>>},
        t \in {{}, {{G1, G5}, {H1, H4}}}}

\* The custom edges: pairs of identifiers, present or not in the tables.
EdgePairs ==
    {<<G1, G5>>, <<G1, G9>>, <<G9, G5>>, <<G1, G1>>, <<H1, H1>>, <<H1, H4>>}

EdgeLists == UNION {[1..n -> EdgePairs] : n \in 0..MaxEdges}

\* The votes of a build: one precinct, with or without a rep vote.
GraphVotes == {e \in SessionVotes : e["P1"].dem = 1 /\ e["P1"].rep <= 1}

\* The tables of a build: one precinct, a block of G1 and another block.
GraphTables ==
    {c \in GeoTables : /\ Len(c) = 2
                       /\ c[1].BLOCK_KEY = K1
                       /\ c[2].BLOCK_KEY \in {K1, K5, K4}
                       /\ \A i \in DOMAIN c : c[i].SRPREC_KEY = "P1"}

GraphInit ==
    /\ election_df \in GraphVotes
    /\ conversion_df \in GraphTables
    /\ call = NoCall
    /\ merged = <<>>
    /\ loaded = Constructed
    /\ history = <<>>
    /\ NoHamilton
    /\ shapefile_df \in Shapes
    /\ vote_by_block_df = Table(<<>>, <<>>)
    /\ gdf = <<>>
    /\ graph = NoGraph
    /\ custom_edges = <<>>
    /\ edge_i = 0

\* A build ran up to its loop: its exception, if any, is the call's, and
\* leaves no loop to run.
BuiltAs(entry, level, edges, body, built) ==
    /\ call = NoCall
    /\ call' = [entry |-> entry, level |-> level, raised |-> built.raised,
                ret |-> <<>>]
    /\ merged' = body.merged
    /\ vote_by_block_df' = built.votes
    /\ gdf' = built.gdf
    /\ graph' = built.graph
    /\ custom_edges' = IF built.raised = "" THEN edges ELSE <<>>
    /\ edge_i' = 0
    /\ UNCHANGED <<election_df, conversion_df, hamilton_vars, loaded, history,
                   shapefile_df>>

CallGraphifyCreate ==
    /\ IsConstructed("Graphify")
    /\ \E body \in {SharedBody(conversion_df, election_df)} :
          \E level \in Levels : \E edges \in EdgeLists :
              BuiltAs("Graphify.create", level, edges, body,
                      Graphify_create(body, level, shapefile_df))

CallCultivateGraphify ==
    /\ IsConstructed("Cultivate")
    /\ \E body \in {SharedBody(conversion_df, election_df)} :
          \E level \in Levels : \E edges \in EdgeLists :
              BuiltAs("Cultivate.graphify", level, edges, body,
                      Cultivate_graphify(body, level, shapefile_df))

GraphEntries == {"Graphify.create", "Cultivate.graphify"}

\* One turn of the loop over custom_edges.
AddEdgeByGeoid ==
    /\ call.entry \in GraphEntries
    /\ call.raised = ""
    /\ edge_i < Len(custom_edges)
    /\ \E added \in {_add_edge_by_geoid(graph, gdf,
                                        custom_edges[edge_i + 1][1],
                                        custom_edges[edge_i + 1][2])} :
          /\ call' = [call EXCEPT !.raised = added.raised]
          /\ graph' = IF added.raised = "" THEN added.ret ELSE graph
    /\ edge_i' = edge_i + 1
    /\ UNCHANGED <<election_df, conversion_df, merged, hamilton_vars, loaded,
                   history, shapefile_df, vote_by_block_df, gdf, custom_edges>>

GraphNext == CallGraphifyCreate \/ CallCultivateGraphify \/ AddEdgeByGeoid

SpecGraph == GraphInit /\ [][GraphNext]_vars

(***************************************************************************)
(* The specification of hamilton_floor alone: a Series of at most MaxLen   *)
(* floats is drawn, then the function is applied to it.                    *)
(***************************************************************************)
HFloats == {NaN} \cup {<<n, d>> : n \in (0 - NegNum)..MaxNum, d \in 1..MaxDen}

\* The Series of n floats.
HSeries(n) == [1..n -> HFloats]

HInit ==
    /\ election_df = <<>>
    /\ conversion_df = <<>>
    /\ call = NoCall
    /\ merged = <<>>
    /\ loaded = Constructed
    /\ history = <<>>
    /\ NoGraphBuild
    /\ \E n \in 0..MaxLen : hvalues \in HSeries(n)
    /\ hout = NotCalled

HamiltonFloor ==
    /\ hout = NotCalled
    /\ hout' = hamilton_floor(hvalues)
    /\ UNCHANGED <<engine_vars, hvalues, loaded, history, graph_vars>>

HNext == HamiltonFloor

SpecHamilton == HInit /\ [][HNext]_vars

(***************************************************************************)
(* Claims about the engine, under Spec.                                    *)
(***************************************************************************)
Recognized == {"block", "blockgroup", "tract", "county"}

WasCalled == call.entry # ""

CallReturned == WasCalled /\ call.raised = ""

\* The rows of a table that belong to precinct p, and a column of rows.
PrecinctRows(rows, p) == SelectSeq(rows, LAMBDA r : r.SRPREC_KEY = p)

Column(rows, col) == Map(rows, LAMBDA r : r[col])

\* The outcome of an entry point on tables c and e.
Outcome(entry, c, e, level) ==
    LET body == SharedBody(c, e)
        own == IF entry = "Blockify.rollup" THEN Blockify_rollup(body.merged, level)
               ELSE IF entry = "Graphify.blockify"
               THEN Graphify_blockify(body.merged, level)
               ELSE Cultivate_blockify(body.merged, level)
    IN  IF body.raised # "" THEN Raise(body.raised) ELSE own

\* Precinct p has a vote record and a conversion row with SRTOTREG > 0.
HasPositiveRegistration(p) ==
    /\ p \in DOMAIN election_df
    /\ \E i \in DOMAIN conversion_df :
          /\ conversion_df[i].SRPREC_KEY = p
          /\ FGt(conversion_df[i].SRTOTREG, FromInt(0))

\* The apportioned counts of precinct p's rows sum to its original counts.
Conserved(p) ==
    /\ ISum(Column(PrecinctRows(merged, p), "dem")) = election_df[p].dem
    /\ ISum(Column(PrecinctRows(merged, p), "rep")) = election_df[p].rep

\* Every conversion row of precinct p carries a finite weight and the same
\* finite positive total, and the weights sum to that total.
WeightsSumToTotal(p) ==
    LET rows == PrecinctRows(conversion_df, p)
    IN  /\ rows # <<>>
        /\ \A i \in DOMAIN rows :
              /\ IsFinite(rows[i].BLKREG) /\ IsFinite(rows[i].SRTOTREG)
              /\ FGt(rows[i].SRTOTREG, FromInt(0))
              /\ FEq(rows[i].SRTOTREG, rows[1].SRTOTREG)
        /\ FEq(FSum(Column(rows, "BLKREG")), rows[1].SRTOTREG)

\* C1 as stated: after allocation and Hamilton rounding, for every precinct
\* with a vote record and conversion rows with SRTOTREG > 0 the apportioned
\* counts of its rows sum to its original count, for dem and for rep.
C1_Conservation ==
    WasCalled =>
        \A p \in PrecinctKeys : HasPositiveRegistration(p) => Conserved(p)

\* C1 as amended: after allocation and Hamilton rounding, for every precinct
\* with a vote record whose conversion rows all carry a finite BLKREG and one
\* same positive finite SRTOTREG, the BLKREG values summing to that SRTOTREG,
\* the apportioned counts of its rows sum to its original count, for dem and
\* for rep.
C1_ConservationWhenWeightsSumToTotal ==
    WasCalled =>
        \A p \in PrecinctKeys :
            (p \in DOMAIN election_df /\ WeightsSumToTotal(p)) => Conserved(p)

\* C1's case: a precinct with votes for both choices was split over two rows
\* of half its registration each, and its counts were apportioned.
C1_Witness ==
    /\ WasCalled
    /\ \E p \in DOMAIN election_df :
          /\ WeightsSumToTotal(p)
          /\ Len(PrecinctRows(merged, p)) = 2
          /\ election_df[p].dem > 0 /\ election_df[p].rep > 0

\* The apportioned counts of the rows of precinct p in m, for one choice.
Apportionment(m, p, choice) == Column(PrecinctRows(m, p), choice)

\* Conversion tables that differ from conversion_df in the weights of one row
\* of a precinct other than p.
OtherWeights(p) ==
    {[conversion_df EXCEPT ![i].BLKREG = w[1], ![i].SRTOTREG = w[2]] :
        i \in {j \in DOMAIN conversion_df : conversion_df[j].SRPREC_KEY # p},
        w \in Weights}

\* C5: the apportioned counts of a precinct's rows for a choice are
\* hamilton_floor of the raw allocations of those rows for that choice, and
\* they stay the same when the counts of another precinct, the other choice's
\* count of the same precinct, or the weights of another precinct's rows are
\* changed.
C5_NoMixing ==
    WasCalled =>
        /\ \A p \in PrecinctKeys :
              /\ Apportionment(merged, p, "dem")
                    = hamilton_floor(Apportionment(merged, p, "dem_raw")).ret
              /\ Apportionment(merged, p, "rep")
                    = hamilton_floor(Apportionment(merged, p, "rep_raw")).ret
        /\ \A e \in VoteTables : \E m \in {Merged(conversion_df, e)} :
              \A p \in DOMAIN e \cap DOMAIN election_df :
                  /\ e[p].dem = election_df[p].dem =>
                        Apportionment(m, p, "dem") = Apportionment(merged, p, "dem")
                  /\ e[p].rep = election_df[p].rep =>
                        Apportionment(m, p, "rep") = Apportionment(merged, p, "rep")
        /\ \A p \in DOMAIN election_df :
              \A c \in OtherWeights(p) : \E m \in {Merged(c, election_df)} :
                  /\ Apportionment(m, p, "dem") = Apportionment(merged, p, "dem")
                  /\ Apportionment(m, p, "rep") = Apportionment(merged, p, "rep")

\* C5's case: two precincts with different counts each have a row of half
\* their registration, and the counts were apportioned.
C5_Witness ==
    /\ WasCalled
    /\ Len(merged) = 2
    /\ merged[1].SRPREC_KEY # merged[2].SRPREC_KEY
    /\ "P2" \in DOMAIN election_df
    /\ election_df["P1"] # election_df["P2"]
    /\ election_df["P1"].dem # election_df["P1"].rep
    /\ \A i \in DOMAIN merged : FEq(merged[i].BLKREG, FromInt(1))
                                /\ FEq(merged[i].SRTOTREG, FromInt(2))

\* A conversion row the engine excludes for its data quality: no matching
\* vote record, or a missing, zero or negative total registration.
Excluded(r) ==
    \/ r.SRPREC_KEY \notin DOMAIN election_df
    \/ IsNaN(r.SRTOTREG)
    \/ ~FGt(r.SRTOTREG, FromInt(0))

\* C6: a conversion row with no matching vote record or with a missing, zero
\* or negative total registration raises nothing and contributes nothing: no
\* such row reaches the Hamilton step, and the call ends as it does on the
\* conversion table without those rows.
C6_SilentExclusion ==
    WasCalled =>
        /\ call.raised # "IntCastingNaNError"
        /\ \A i \in DOMAIN merged : ~Excluded(conversion_df[merged[i].index])
        /\ [raised |-> call.raised, ret |-> call.ret]
              = Outcome(call.entry,
                        SelectSeq(conversion_df, LAMBDA r : ~Excluded(r)),
                        election_df, call.level)

\* C6's case: a precinct with votes and a total registration of zero sits
\* beside a row that is allocated, and the call returned a table with a row.
C6_Witness ==
    /\ CallReturned
    /\ call.ret.rows # <<>>
    /\ \E i \in DOMAIN conversion_df :
          /\ conversion_df[i].SRPREC_KEY \in DOMAIN election_df
          /\ election_df[conversion_df[i].SRPREC_KEY].dem > 0
          /\ conversion_df[i].SRTOTREG = FromInt(0)

\* C7: a call of an entry point with a level that is not one of the
\* recognized levels raises ValueError and returns no table.
C7_UnrecognizedLevelRaises ==
    (WasCalled /\ call.level \notin Recognized) =>
        call.raised = "ValueError" /\ call.ret = <<>>

\* C7's case: Blockify.rollup was called with an unrecognized level on tables
\* that do allocate votes.
C7_Witness ==
    /\ WasCalled
    /\ call.entry = "Blockify.rollup"
    /\ call.level \notin Recognized
    /\ merged # <<>>

\* The identifier column of the table the call returned.
GeoidCol == call.ret.cols[1]

\* The blocks that enter an aggregate: every allocated block whose block
\* group code, its first 12 characters, does not end in "0".
PopulatedBlocks ==
    {merged[i].BLOCK_KEY : i \in {j \in DOMAIN merged :
        ~EndsInZero(Prefix(merged[j].BLOCK_KEY, 12))}}

\* The prefix length the claim gives a level.
ClaimedLen(level) ==
    IF level = "blockgroup" THEN 12 ELSE IF level = "tract" THEN 11 ELSE 5

\* C8: at level blockgroup, tract and county every entry point returns a
\* table whose identifiers are the first 12, 11 and 5 characters of the
\* 15-character identifiers of allocated blocks, one for every populated
\* block.
C8_PrefixByLevel ==
    (WasCalled /\ call.level \in {"blockgroup", "tract", "county"}) =>
        /\ call.raised = ""
        /\ \A i \in DOMAIN call.ret.rows : \E j \in DOMAIN merged :
              call.ret.rows[i][GeoidCol]
                  = Prefix(merged[j].BLOCK_KEY, ClaimedLen(call.level))
        /\ \A k \in PopulatedBlocks : \E i \in DOMAIN call.ret.rows :
              call.ret.rows[i][GeoidCol] = Prefix(k, ClaimedLen(call.level))

\* C9: at level block every entry point returns, without raising, one row
\* per populated block, with the block's identifier and its summed counts.
C9_BlockLevelIsIdentity ==
    (WasCalled /\ call.level = "block") =>
        /\ call.raised = ""
        /\ Column(call.ret.rows, "BLOCK_KEY") = SortedStrs(PopulatedBlocks)
        /\ \A i \in DOMAIN call.ret.rows :
              /\ call.ret.rows[i].dem
                    = SumWhere(merged, "BLOCK_KEY", call.ret.rows[i].BLOCK_KEY, "dem")
              /\ call.ret.rows[i].rep
                    = SumWhere(merged, "BLOCK_KEY", call.ret.rows[i].BLOCK_KEY, "rep")

\* The dem and rep counts of a returned row, whatever their columns' names.
DemOf(r) == IF "dem" \in DOMAIN r THEN r.dem ELSE r.dem_vote

RepOf(r) == IF "rep" \in DOMAIN r THEN r.rep ELSE r.rep_vote

\* The sum of a column of `merged` over the populated blocks whose identifier
\* starts with g.
PopulatedSum(g, col) ==
    ISum(Column(SelectSeq(merged,
                    LAMBDA r : /\ r.BLOCK_KEY \in PopulatedBlocks
                               /\ Prefix(r.BLOCK_KEY, Len(g)) = g),
                col))

IsPrefix(g, k) == Len(g) <= Len(k) /\ SubSeq(k, 1, Len(g)) = g

\* A block a water-only test removes, reading the block group as the first
\* 12 characters or as the first 11.
Sentinel(k) == EndsInZero(Prefix(k, 12)) \/ EndsInZero(Prefix(k, 11))

\* The total of a returned row, whatever its column's name.
TotOf(r) == IF "tot" \in DOMAIN r THEN r.tot ELSE r.total_vote

\* The sum of a column of `merged` over the rows whose block lies under g.
SumUnder(g, col) ==
    ISum(Column(SelectSeq(merged, LAMBDA r : IsPrefix(g, r.BLOCK_KEY)), col))

\* C11: duplicate or overlapping mappings are summed, not overwritten: the
\* counts of a returned row are the sums of the apportioned counts of all the
\* conversion rows mapped under its identifier, of whatever precinct, and every
\* allocated block that is not water-only lies under exactly one returned row.
C11_DuplicatesSummed ==
    CallReturned =>
        /\ \A i \in DOMAIN call.ret.rows :
              LET r == call.ret.rows[i]
                  g == r[GeoidCol]
              IN  (\A j \in DOMAIN merged :
                      IsPrefix(g, merged[j].BLOCK_KEY)
                          => ~Sentinel(merged[j].BLOCK_KEY))
                  => /\ DemOf(r) = SumUnder(g, "dem")
                     /\ RepOf(r) = SumUnder(g, "rep")
                     /\ TotOf(r) = SumUnder(g, "dem") + SumUnder(g, "rep")
        /\ \A j \in DOMAIN merged :
              ~Sentinel(merged[j].BLOCK_KEY) =>
                  Cardinality({i \in DOMAIN call.ret.rows :
                      IsPrefix(call.ret.rows[i][GeoidCol], merged[j].BLOCK_KEY)}) = 1

\* C11's case: two precincts map one vote each to the same block, and the
\* block-level table holds that block with both votes.
C11_Witness ==
    /\ CallReturned
    /\ call.level = "block"
    /\ Len(merged) = 2
    /\ merged[1].BLOCK_KEY = merged[2].BLOCK_KEY
    /\ merged[1].SRPREC_KEY # merged[2].SRPREC_KEY
    /\ merged[1].dem = 1 /\ merged[2].dem = 1
    /\ Len(call.ret.rows) = 1
    /\ DemOf(call.ret.rows[1]) = 2

\* C12: the returned table is in strictly ascending string order of its
\* identifiers, so that no identifier appears in two rows, at every level.
C12_SortedUnique ==
    CallReturned =>
        \A i, j \in DOMAIN call.ret.rows :
            i < j => StrLess(call.ret.rows[i][GeoidCol], call.ret.rows[j][GeoidCol])

\* C12's case: the conversion table lists two blocks in descending order and
\* both are in the returned table.
C12_Witness ==
    /\ CallReturned
    /\ Len(conversion_df) = 2
    /\ StrLess(conversion_df[2].BLOCK_KEY, conversion_df[1].BLOCK_KEY)
    /\ Len(call.ret.rows) = 2

\* The entry point's own part of a call, lines 88 onward, on `merged` m.
OwnOutcome(entry, m, level) ==
    IF entry = "Blockify.rollup" THEN Blockify_rollup(m, level)
    ELSE IF entry = "Graphify.blockify" THEN Graphify_blockify(m, level)
    ELSE Cultivate_blockify(m, level)

\* A returned table as identifiers with counts, whatever its columns' names.
Plain(t) ==
    Map(t.rows, LAMBDA r : [id |-> r[t.cols[1]], dem |-> DemOf(r),
                            rep |-> RepOf(r), tot |-> TotOf(r)])

\* A returned table grouped by the first n characters of its identifiers and
\* summed, in ascending order of the prefixes.
Regroup(t, n) ==
    LET rows == Plain(t)
        under(g) == SelectSeq(rows, LAMBDA r : Prefix(r.id, n) = g)
    IN  Map(SortedStrs({Prefix(rows[i].id, n) : i \in DOMAIN rows}),
            LAMBDA g : [id |-> g,
                        dem |-> ISum(Column(under(g), "dem")),
                        rep |-> ISum(Column(under(g), "rep")),
                        tot |-> ISum(Column(under(g), "tot"))])

\* The levels finer than a level.
FinerLevels(level) ==
    IF level = "blockgroup" THEN {"block"}
    ELSE IF level = "tract" THEN {"block", "blockgroup"}
    ELSE IF level = "county" THEN {"block", "blockgroup", "tract"}
    ELSE {}

\* C13: the table returned for level blockgroup, tract or county is the table
\* of the same entry point for level block, and for every finer aggregated
\* level, grouped by the level's prefix (12, 11, 5 characters) and summed:
\* same identifiers, same counts and totals.
C13_AggregationIdempotent ==
    CallReturned =>
        \A finer \in FinerLevels(call.level) :
            \E f \in {OwnOutcome(call.entry, merged, finer)} :
                f.raised = "" =>
                    Regroup(f.ret, ClaimedLen(call.level)) = Plain(call.ret)

\* C13's case: Blockify.rollup returned one county row that sums two block
\* groups, each with votes.
C13_Witness ==
    /\ CallReturned
    /\ call.entry = "Blockify.rollup" /\ call.level = "county"
    /\ Len(call.ret.rows) = 1
    /\ \E f \in {Blockify_rollup(merged, "blockgroup")} :
          /\ Len(f.ret.rows) = 2
          /\ \A i \in DOMAIN f.ret.rows : f.ret.rows[i].tot > 0

\* Every apportioned count and every returned count and total is >= 0.
AllCountsNonNegative ==
    /\ \A i \in DOMAIN merged : merged[i].dem >= 0 /\ merged[i].rep >= 0
    /\ CallReturned =>
          \A i \in DOMAIN call.ret.rows :
              /\ DemOf(call.ret.rows[i]) >= 0
              /\ RepOf(call.ret.rows[i]) >= 0
              /\ TotOf(call.ret.rows[i]) >= 0

\* The loaded tables hold no negative vote count and no negative BLKREG.
NonNegativeInputs ==
    /\ \A p \in DOMAIN election_df :
          election_df[p].dem >= 0 /\ election_df[p].rep >= 0
    /\ \A i \in DOMAIN conversion_df : conversion_df[i].BLKREG[1] >= 0

\* C14 as stated: every apportioned per-row count and every count and total
\* of a returned table is a non-negative integer, whatever the loaded tables.
C14_NonNegative == WasCalled => AllCountsNonNegative

\* C14 as amended: when the loaded tables hold no negative vote count and no
\* negative BLKREG, every apportioned per-row count and every count and total
\* of a returned table is a non-negative integer.
C14_NonNegativeOnNonNegativeInputs ==
    (WasCalled /\ NonNegativeInputs) => AllCountsNonNegative

\* C14's case: non-negative tables whose votes were split over two rows of
\* one precinct, one of which got the vote, and a table was returned.
C14_Witness ==
    /\ CallReturned /\ NonNegativeInputs
    /\ Len(merged) = 2
    /\ merged[1].SRPREC_KEY = merged[2].SRPREC_KEY
    /\ merged[1].dem + merged[2].dem = 1
    /\ call.ret.rows # <<>>

(***************************************************************************)
(* Claims about hamilton_floor, under SpecHamilton.                        *)
(***************************************************************************)
HReturned == hout # NotCalled /\ hout.raised = ""

HAllFinite == \A i \in DOMAIN hvalues : IsFinite(hvalues[i])

HNonNegative == \A i \in DOMAIN hvalues : hvalues[i][1] >= 0

HFloors == [i \in DOMAIN hvalues |-> Floor(hvalues[i])]

HRemainders == [i \in DOMAIN hvalues |-> FSub(hvalues[i], FromInt(HFloors[i]))]

\* The group's total is exactly halfway between two integers.
HTotalIsTie ==
    LET t == FSum(hvalues) IN (2 * t[1]) % t[2] = 0 /\ t[1] % t[2] # 0

\* The elements the call incremented.
HIncremented == {i \in DOMAIN hvalues : hout.ret[i] = HFloors[i] + 1}

\* C2 as stated: for a group of non-negative finite values the sum of the
\* returned integers equals round(sum of the input values).
C2_SumIsRoundOfSum ==
    (HReturned /\ HAllFinite /\ HNonNegative)
        => ISum(hout.ret) = Round(FSum(hvalues))

\* C2 as amended: for a group of non-negative finite values the sum of the
\* returned integers equals round(sum of the input values) whenever that sum
\* is not exactly halfway between two integers; when it is, the returned sum
\* is one of the two integers nearest to it (the floors' sum plus the
\* remainders' sum rounded half to even).
C2_SumIsRoundOfSumUnlessTie ==
    (HReturned /\ HAllFinite /\ HNonNegative) =>
        LET t == FSum(hvalues)
            s == ISum(hout.ret)
        IN  /\ ~HTotalIsTie => s = Round(t)
            /\ HTotalIsTie => /\ s \in {Floor(t), Floor(t) + 1}
                              /\ s = ISum(HFloors) + Round(FSum(HRemainders))

\* C2's case: a group of two or more non-negative finite values with a
\* positive deficit has been rounded.
C2_Witness ==
    /\ HReturned /\ HAllFinite /\ HNonNegative
    /\ Len(hvalues) >= 2
    /\ ~HTotalIsTie
    /\ ISum(hout.ret) > ISum(HFloors)

\* C3: for a group of finite values every returned integer is floor(value_i)
\* or floor(value_i) + 1: none is incremented twice, none is below its floor.
C3_WithinOneOfFloor ==
    (HReturned /\ HAllFinite) =>
        \A i \in DOMAIN hvalues :
            hout.ret[i] \in {HFloors[i], HFloors[i] + 1}

\* C3's case: a group with a deficit of two or more has been rounded, and
\* some element kept its floor while another was incremented.
C3_Witness ==
    /\ HReturned /\ HAllFinite
    /\ Round(FSum(HRemainders)) >= 2
    /\ \E i, j \in DOMAIN hvalues :
           hout.ret[i] = HFloors[i] /\ hout.ret[j] = HFloors[j] + 1

\* The first d elements of the group by descending remainder, the earlier
\* element first among equal remainders; every other element keeps its floor.
HTopFirst(d) ==
    /\ Cardinality(HIncremented) = d
    /\ \A i \in DOMAIN hvalues \ HIncremented : hout.ret[i] = HFloors[i]
    /\ \A i \in HIncremented : \A j \in DOMAIN hvalues \ HIncremented :
           \/ FGt(HRemainders[i], HRemainders[j])
           \/ (FEq(HRemainders[i], HRemainders[j]) /\ i < j)

\* C4 as stated, the deficit being round(sum(value_i)) - sum(floor_i): when it
\* is d > 0 exactly the first d elements by descending remainder (earlier row
\* first among equals) are incremented and the others keep their floor.
C4_TopDeficitIncremented ==
    (HReturned /\ HAllFinite /\ HNonNegative) =>
        LET d == Round(FSum(hvalues)) - ISum(HFloors)
        IN  d > 0 => HTopFirst(d)

\* C4 as amended, the deficit being round(sum of the fractional remainders):
\* when it is d > 0 exactly the first d elements by descending remainder
\* (earlier row first among equals) are incremented and the others keep their
\* floor; when it is not, every element keeps its floor.
C4_TopRemainderDeficitIncremented ==
    (HReturned /\ HAllFinite) =>
        LET d == Round(FSum(HRemainders))
        IN  IF d > 0 THEN HTopFirst(d) ELSE hout.ret = HFloors

\* C4's case: a tie between equal remainders was decided, one of the two
\* elements being incremented and the other not.
C4_Witness ==
    /\ HReturned /\ HAllFinite
    /\ \E i, j \in DOMAIN hvalues :
           /\ i < j
           /\ FEq(HRemainders[i], HRemainders[j])
           /\ i \in HIncremented /\ j \notin HIncremented

\* C17: hamilton_floor on a group whose every value is missing (NaN) does not
\* raise and returns zero for every element, as many as the group has and in
\* the group's positions.
C17_AllMissingGivesZeros ==
    (hout # NotCalled /\ \A i \in DOMAIN hvalues : IsNaN(hvalues[i])) =>
        /\ hout.raised = ""
        /\ DOMAIN hout.ret = DOMAIN hvalues
        /\ \A i \in DOMAIN hvalues : hout.ret[i] = 0

\* C17's case: a group of two or more values, all missing, was rounded.
C17_Witness ==
    /\ hout # NotCalled
    /\ Len(hvalues) >= 2
    /\ \A i \in DOMAIN hvalues : IsNaN(hvalues[i])

(***************************************************************************)
(* Claims about a session of calls, under SpecSession.                     *)
(***************************************************************************)
\* Every recorded call ended as a first call with its level ends on the
\* object's tables.
ResultsRepeat ==
    \A i \in DOMAIN history :
        [raised |-> history[i].raised, ret |-> history[i].ret]
            = Outcome(history[i].entry, conversion_df, election_df,
                      history[i].level)

\* C15: no call, of any entry point and level, returning or raising, changes
\* the loaded vote table or conversion table, and every call of a session
\* ends as the same call ends when it is the first on these tables.
C15_Pure ==
    /\ [][election_df' = election_df /\ conversion_df' = conversion_df]_vars
    /\ []ResultsRepeat

\* C15's case: a call with an unrecognized level raised ValueError and the
\* next call of the same entry point returned a table with a row.
C15_Witness ==
    /\ Len(history) = 2
    /\ history[1].raised = "ValueError"
    /\ history[1].level \notin Recognized
    /\ history[2].entry = history[1].entry
    /\ history[2].raised = ""
    /\ history[2].ret.rows # <<>>

(***************************************************************************)
(* Claims about construction, under SpecLoad.                              *)
(***************************************************************************)
EngineClasses == {"Blockify", "Graphify", "Cultivate"}

\* The precincts whose record, as read, lacks a count.
MissingCount ==
    {p \in DOMAIN loaded.read :
        IsNaN(loaded.read[p].dem) \/ IsNaN(loaded.read[p].rep)}

\* C16: a vote record with a missing count is an absent record: constructing
\* the object does not fail over it, the loaded table holds no record for the
\* precinct (its count is not taken as zero), and no conversion row of the
\* precinct is allocated by a call.
C16_MissingCountIsAbsentRecord ==
    loaded.cls \in EngineClasses =>
        /\ loaded.raised # "IntCastingNaNError"
        /\ loaded.raised = "" => \A p \in MissingCount : p \notin DOMAIN election_df
        /\ WasCalled =>
              /\ call.raised # "IntCastingNaNError"
              /\ \A i \in DOMAIN merged : merged[i].SRPREC_KEY \notin MissingCount

\* C19: constructing Cultivate with its default year passes the year check
\* of the Harvest it constructs, which raises ValueError only for a year that
\* is not 2022.
C19_DefaultYearPasses ==
    /\ (loaded.cls = "Cultivate" /\ loaded.year = CultivateDefaultYear)
          => loaded.raised # "ValueError"
    /\ (loaded.cls \in {"Harvest", "Cultivate"} /\ loaded.raised = "ValueError")
          => loaded.year.text # "2022"

(***************************************************************************)
(* Claims about the graph builds, checked under SpecGraph.                 *)
(***************************************************************************)
\* The blockify of the class of a build.
BlockifyOf(entry) ==
    IF entry = "Graphify.create" THEN "Graphify.blockify" ELSE "Cultivate.blockify"

\* The counts of a table's rows, in order.
Counted(t) ==
    Map(t.rows, LAMBDA r : [dem |-> DemOf(r), rep |-> RepOf(r), tot |-> TotOf(r)])

\* C18: in a build at a recognized level, the identifier column the class's
\* blockify produces is the one looked up as "GEOID_" + level and renamed to
\* GEOID20, so the lookup raises nothing, and the table joined to the
\* geometry is the class's aggregation at the requested level.
C18_LookupMatchesLevel ==
    (call.entry \in GraphEntries /\ call.level \in Recognized) =>
        /\ call.raised \notin {"KeyError", "ValueError"}
        /\ call.raised = "" =>
              /\ HasCol(vote_by_block_df, "GEOID20")
              /\ \E own \in {OwnOutcome(BlockifyOf(call.entry), merged, call.level)} :
                    /\ own.raised = ""
                    /\ Counted(vote_by_block_df) = Counted(own.ret)

\* The custom edges the loop has gone through.
Applied == {custom_edges[k] : k \in 1..edge_i}

\* The identifier is the GEOID20 of a row of gdf.
Present(geoid) == IndexesOf(gdf, geoid) # <<>>

\* The node of an identifier of gdf.
NodeOf(geoid) == IndexesOf(gdf, geoid)[1]

\* C20: once the loop over the custom edges runs, no exception has come out
\* of it, the nodes are those of the rows of gdf, and the edges are those of
\* the geometry and, for each custom edge gone through with both identifiers
\* in gdf, the edge between their nodes: a custom edge with an identifier
\* that is not in gdf left the graph as it was.
C20_EdgeOnlyBetweenPresent ==
    (call.entry \in GraphEntries /\ edge_i > 0) =>
        /\ call.raised = ""
        /\ graph.nodes = {i - 1 : i \in DOMAIN gdf}
        /\ graph.edges =
              FromGeodataframe(gdf, shapefile_df.touching).edges
                 \cup {{NodeOf(e[1]), NodeOf(e[2])} :
                          e \in {a \in Applied : Present(a[1]) /\ Present(a[2])}}

\* Both custom edges are gone through: one with an identifier that is not in
\* gdf, one between two rows of gdf that the geometry does not join.
C20_Witness ==
    /\ call.entry \in GraphEntries
    /\ call.raised = ""
    /\ edge_i = 2
    /\ \E a \in Applied : ~Present(a[1]) \/ ~Present(a[2])
    /\ \E a \in Applied :
          /\ Present(a[1]) /\ Present(a[2])
          /\ NodeOf(a[1]) # NodeOf(a[2])
          /\ {NodeOf(a[1]), NodeOf(a[2])}
                \notin FromGeodataframe(gdf, shapefile_df.touching).edges
          /\ {NodeOf(a[1]), NodeOf(a[2])} \in graph.edges

=============================================================================
